---- MODULE Spec2Model ----
(***************************************************************************)
(* Readiness validators of the ODF LVM add-on of the assisted-service:     *)
(* the lvm operator (internal/operators/lvm/lvm_operator.go) and its       *)
(* odflvm sibling (internal/operators/odf-lvm).  One operator instance is  *)
(* constructed with a configuration and handed a cluster and a host; every *)
(* step is one ValidateCluster or ValidateHost call on them, whose         *)
(* returned (verdict, error) pair is recorded in the state.  Further       *)
(* specifications call the helpers on their own (SpecDisks, SpecReq).      *)
(***************************************************************************)
EXTENDS Integers, Sequences, FiniteSets, TLC

VARIABLES o, curCluster, curHost, call, res, err,
          counted, requirements

vars == <<o, curCluster, curHost, call, res, err,
          counted, requirements>>

\* what the helper calls record
calcVars == <<counted, requirements>>

----------------------------------------------------------------------------
(* Bounds of the model *)

\* longest disk list of an inventory
MaxDisks == 2
\* largest CPU core count of an inventory and of a configuration
MaxCores == 2

----------------------------------------------------------------------------
(* Messages and errors: a format string with its integer and string        *)
(* arguments, as fmt.Sprintf / fmt.Errorf receive them.                    *)

Msg(format, args, str) == [fmt |-> format, args |-> args, str |-> str]

Text(s) == Msg(s, <<>>, <<>>)

\* the nil error
NilErr == Text("<nil>")

\* api.ValidationStatus
Success == "success"
Failure == "failure"
Pending == "pending"

ValidationResult(status, id, reasons) ==
    [Status |-> status, ValidationId |-> id, Reasons |-> reasons]

----------------------------------------------------------------------------
(* Unit conversions (pkg/conversions) *)

MiB == 1048576

MibToBytes(mebiBytes) == mebiBytes * MiB

\* Go integer division truncates toward zero
BytesToMib(bytes) ==
    IF bytes >= 0 THEN bytes \div MiB ELSE -((-bytes) \div MiB)

----------------------------------------------------------------------------
(* hashicorp/go-version: a version string is a sequence of characters.     *)

DigitChars == <<"0", "1", "2", "3", "4", "5", "6", "7", "8", "9">>
LetterChars == <<"a", "b", "c", "r", "v", "x">>

IsDigit(c) == \E i \in 1..Len(DigitChars) : DigitChars[i] = c
IsLetter(c) == \E i \in 1..Len(LetterChars) : LetterChars[i] = c
DigitVal(c) == (CHOOSE i \in 1..Len(DigitChars) : DigitChars[i] = c) - 1

\* length of the longest prefix of s made of digits
RECURSIVE DigitRun(_)
DigitRun(s) ==
    IF s = <<>> \/ ~IsDigit(Head(s)) THEN 0 ELSE 1 + DigitRun(Tail(s))

\* strconv.ParseInt of a digit string
RECURSIVE ParseInt(_, _)
ParseInt(s, acc) ==
    IF s = <<>> THEN acc ELSE ParseInt(Tail(s), acc * 10 + DigitVal(Head(s)))

\* [0-9]+(\.[0-9]+)* : the numeric segments at the front of s and what follows
RECURSIVE ScanSegments(_, _)
ScanSegments(s, segs) ==
    LET n == DigitRun(s) IN
    IF n = 0 THEN [ok |-> FALSE, segs |-> segs, rest |-> s]
    ELSE LET seg == ParseInt(SubSeq(s, 1, n), 0)
             rest == SubSeq(s, n + 1, Len(s))
         IN IF rest # <<>> /\ Head(rest) = "." /\ DigitRun(Tail(rest)) > 0
            THEN ScanSegments(Tail(rest), Append(segs, seg))
            ELSE [ok |-> TRUE, segs |-> Append(segs, seg), rest |-> rest]

IsIdent(s) == \A i \in 1..Len(s) : IsDigit(s[i]) \/ IsLetter(s[i]) \/ s[i] = "-"

\* the pre-release part: an optional "-" and an identifier, or an identifier
\* that starts with a letter; ok is FALSE when the tail matches neither
ScanPrerelease(rest) ==
    IF rest = <<>> THEN [ok |-> TRUE, pre |-> <<>>]
    ELSE IF Head(rest) = "-"
         THEN IF Len(rest) = 1 THEN [ok |-> TRUE, pre |-> rest]
              ELSE [ok |-> IsIdent(Tail(rest)), pre |-> Tail(rest)]
         ELSE [ok |-> IsLetter(Head(rest)) /\ IsIdent(rest), pre |-> rest]

\* segments are padded with zeros to three
RECURSIVE PadSegments(_)
PadSegments(segs) ==
    IF Len(segs) >= 3 THEN segs ELSE PadSegments(Append(segs, 0))

\* version.NewVersion: (version, error)
NewVersion(v) ==
    LET body == IF v # <<>> /\ Head(v) = "v" THEN Tail(v) ELSE v
        sc == ScanSegments(body, <<>>)
        pr == ScanPrerelease(sc.rest)
    IN IF sc.ok /\ pr.ok
       THEN [version |-> [segments |-> PadSegments(sc.segs), pre |-> pr.pre],
             err |-> NilErr]
       ELSE [version |-> [segments |-> <<0, 0, 0>>, pre |-> <<>>],
             err |-> Msg("Malformed version: %s", <<>>, v)]

AllZero(s) == \A i \in 1..Len(s) : s[i] = 0

\* -1, 0, 1 by the first differing segment; when one list runs out the
\* longer one is the greater unless its remaining segments are all zero
RECURSIVE CompareSegments(_, _)
CompareSegments(a, b) ==
    IF a = <<>> THEN (IF AllZero(b) THEN 0 ELSE -1)
    ELSE IF b = <<>> THEN (IF AllZero(a) THEN 0 ELSE 1)
    ELSE IF Head(a) < Head(b) THEN -1
    ELSE IF Head(a) > Head(b) THEN 1
    ELSE CompareSegments(Tail(a), Tail(b))

\* Version.Compare: equal segments are ordered by the pre-release, a version
\* without pre-release being the greater (two different pre-releases are
\* not ordered here: the minimum version carries none)
Compare(v, other) ==
    IF v.segments = other.segments
    THEN IF v.pre = other.pre THEN 0
         ELSE IF v.pre = <<>> THEN 1
         ELSE IF other.pre = <<>> THEN -1
         ELSE 0
    ELSE CompareSegments(v.segments, other.segments)

LessThan(v, other) == Compare(v, other) < 0

----------------------------------------------------------------------------
(* Input domains *)

\* models.DriveType
HddDrive == "HDD"
SsdDrive == "SSD"
DriveTypes == {HddDrive, SsdDrive, "ODD"}

DiskIDs == {"/dev/disk/by-id/test-disk-1", "/dev/disk/by-id/test-disk-2"}

\* models.Disk
Disks == [DriveType : DriveTypes, SizeBytes : {0, 1}, ID : DiskIDs]

RECURSIVE SeqsUpTo(_, _)
SeqsUpTo(S, n) ==
    IF n = 0 THEN {<<>>}
    ELSE LET shorter == SeqsUpTo(S, n - 1)
         IN shorter \cup {Append(q, x) : q \in {r \in shorter : Len(r) = n - 1}, x \in S}

DiskLists == SeqsUpTo(Disks, MaxDisks)

\* usable memory of an inventory, in bytes
MemoryBytes == {-1, 1199 * MiB, 1200 * MiB - 1, 1200 * MiB}

\* host.Inventory is a JSON text: json is "empty" for the empty string,
\* "malformed" for a text that does not unmarshal, "ok" for a document with
\* the fields below
EmptyInventory ==
    [json |-> "empty", CPU |-> 0, UsableBytes |-> 0, Disks |-> <<>>]
MalformedInventory ==
    [json |-> "malformed", CPU |-> 0, UsableBytes |-> 0, Disks |-> <<>>]
Inventories ==
    {EmptyInventory, MalformedInventory}
    \cup [json : {"ok"}, CPU : 0..MaxCores, UsableBytes : MemoryBytes, Disks : DiskLists]

\* models.Host
Hosts == [Inventory : Inventories, InstallationDiskID : {"/dev/disk/by-id/test-disk-1"}]

\* models.ClusterHighAvailabilityMode; "" is the unset (nil) mode
ClusterHighAvailabilityModeNone == "None"
ClusterHighAvailabilityModeFull == "Full"
HighAvailabilityModes ==
    {ClusterHighAvailabilityModeNone, ClusterHighAvailabilityModeFull, ""}

OpenshiftVersions ==
    { <<"4", ".", "1", "2", ".", "0">>,
      <<"4", ".", "1", "0", ".", "0">>,
      <<"4", ".", "9">>,
      <<"4", ".", "1", "2">>,
      <<"4", ".", "1", "3", ".", "1">>,
      <<"5">>,
      <<"v", "4", ".", "1", "2", ".", "0">>,
      <<"4", ".", "1", "2", ".", "0", "-", "r", "c", "1">>,
      <<"4", ".", "1", "3", ".", "0", "-", "r", "c", "1">>,
      <<"4", ".", "1", "2", ".", "0", ".", "1">>,
      <<>>,
      <<"a", "b", "c">>,
      <<"4", ".", ".", "1">>,
      <<"4", ".", "x">>,
      <<"4", ".", "1", "2", "-">> }

\* common.Cluster: topology, platform version and number of hosts
Clusters ==
    [HighAvailabilityMode : HighAvailabilityModes,
     OpenshiftVersion : OpenshiftVersions,
     Hosts : 0..2]

\* the clusters the hosts of the host domain are validated in
HostClusters ==
    {c \in Clusters : /\ c.HighAvailabilityMode = ClusterHighAvailabilityModeNone
                      /\ c.OpenshiftVersion = <<"4", ".", "1", "2", ".", "0">>
                      /\ c.Hosts = 1}

\* Config of either operator: CPU cores and memory MiB required per host
Configs == [CPUPerHost : 0..MaxCores, MemoryPerHostMiB : {0, 1200}]

----------------------------------------------------------------------------
(* Collaborators in internal/common *)

\* common.IsSingleNodeCluster
IsSingleNodeCluster(cluster) ==
    cluster.HighAvailabilityMode = ClusterHighAvailabilityModeNone

\* common.UnmarshalInventory: (inventory, error)
UnmarshalInventory(inventory) ==
    IF inventory.json = "ok"
    THEN [inventory |-> inventory, err |-> NilErr]
    ELSE [inventory |-> inventory, err |-> Text("unexpected end of JSON input")]

----------------------------------------------------------------------------
(* The lvm operator: internal/operators/lvm/lvm_operator.go *)

LvmMinOpenshiftVersion == <<"4", ".", "1", "2", ".", "0">>

lvm_GetName == "lvm"

lvm_GetDependencies(cluster) == <<>>

lvm_GetClusterValidationID == "lvm-requirements-satisfied"

\* variant: the host validation id of the sibling operator
lvm_GetHostValidationID_Lso == "lso-requirements-satisfied"

lvm_GetHostValidationID == "lvm-requirements-satisfied"

\* the lvm package's disk count: (count, error)
RECURSIVE lvm_getValidDiskCount(_, _)
lvm_getValidDiskCount(disks, installationDiskID) ==
    IF disks = <<>> THEN [count |-> 0, err |-> NilErr]
    ELSE LET disk == Head(disks)
             rest == lvm_getValidDiskCount(Tail(disks), installationDiskID)
         IN IF /\ (disk.DriveType = SsdDrive \/ disk.DriveType = HddDrive)
               /\ installationDiskID # disk.ID
               /\ disk.SizeBytes # 0
            THEN [count |-> rest.count + 1, err |-> NilErr]
            ELSE rest

\* variant: the CPU and memory settings exchanged
lvm_GetPreflightRequirements_Swapped(op, cluster) ==
    [requirements |->
        [OperatorName |-> lvm_GetName,
         Dependencies |-> lvm_GetDependencies(cluster),
         Master |-> [CPUCores |-> op.config.MemoryPerHostMiB,
                     RAMMib |-> op.config.CPUPerHost],
         Worker |-> [CPUCores |-> 0, RAMMib |-> 0]],
     err |-> NilErr]

lvm_GetPreflightRequirements(op, cluster) ==
    [requirements |->
        [OperatorName |-> lvm_GetName,
         Dependencies |-> lvm_GetDependencies(cluster),
         Master |-> [CPUCores |-> op.config.CPUPerHost,
                     RAMMib |-> op.config.MemoryPerHostMiB],
         Worker |-> [CPUCores |-> 0, RAMMib |-> 0]],
     err |-> NilErr]

\* variant: the worker requirements returned in place of the master's
lvm_GetHostRequirements_Worker(op, cluster, host) ==
    LET pre == lvm_GetPreflightRequirements(op, cluster) IN
    IF pre.err # NilErr
    THEN [requirements |-> [CPUCores |-> 0, RAMMib |-> 0], err |-> pre.err]
    ELSE [requirements |-> pre.requirements.Worker, err |-> NilErr]

lvm_GetHostRequirements(op, cluster, host) ==
    LET pre == lvm_GetPreflightRequirements(op, cluster) IN
    IF pre.err # NilErr
    THEN [requirements |-> [CPUCores |-> 0, RAMMib |-> 0], err |-> pre.err]
    ELSE [requirements |-> pre.requirements.Master, err |-> NilErr]

\* variant: the version comparison turned around
lvm_ValidateCluster_Reversed(op, cluster) ==
    IF ~IsSingleNodeCluster(cluster)
    THEN [res |-> ValidationResult(Failure, lvm_GetClusterValidationID,
                    <<Text("ODF LVM operator is only supported for Single Node Openshift deployment")>>),
          err |-> NilErr]
    ELSE LET ocp == NewVersion(cluster.OpenshiftVersion)
             min == NewVersion(LvmMinOpenshiftVersion)
         IN IF ocp.err # NilErr
            THEN [res |-> ValidationResult(Failure, lvm_GetHostValidationID, <<ocp.err>>),
                  err |-> NilErr]
            ELSE IF min.err # NilErr
            THEN [res |-> ValidationResult(Failure, lvm_GetHostValidationID, <<min.err>>),
                  err |-> NilErr]
            ELSE IF LessThan(min.version, ocp.version)
            THEN [res |-> ValidationResult(Failure, lvm_GetClusterValidationID,
                            <<Text("ODF LVM operator is only supported for openshift versions 4.12.0 and above")>>),
                  err |-> NilErr]
            ELSE [res |-> ValidationResult(Success, lvm_GetClusterValidationID, <<>>),
                  err |-> NilErr]

lvm_ValidateCluster(op, cluster) ==
    IF ~IsSingleNodeCluster(cluster)
    THEN [res |-> ValidationResult(Failure, lvm_GetClusterValidationID,
                    <<Text("ODF LVM operator is only supported for Single Node Openshift deployment")>>),
          err |-> NilErr]
    ELSE LET ocp == NewVersion(cluster.OpenshiftVersion)
             min == NewVersion(LvmMinOpenshiftVersion)
         IN IF ocp.err # NilErr
            THEN [res |-> ValidationResult(Failure, lvm_GetHostValidationID, <<ocp.err>>),
                  err |-> NilErr]
            ELSE IF min.err # NilErr
            THEN [res |-> ValidationResult(Failure, lvm_GetHostValidationID, <<min.err>>),
                  err |-> NilErr]
            ELSE IF LessThan(ocp.version, min.version)
            THEN [res |-> ValidationResult(Failure, lvm_GetClusterValidationID,
                            <<Text("ODF LVM operator is only supported for openshift versions 4.12.0 and above")>>),
                  err |-> NilErr]
            ELSE [res |-> ValidationResult(Success, lvm_GetClusterValidationID, <<>>),
                  err |-> NilErr]

lvm_ValidateHost(op, cluster, host) ==
    IF host.Inventory.json = "empty"
    THEN [res |-> ValidationResult(Pending, lvm_GetHostValidationID,
                    <<Text("Missing Inventory in the host")>>),
          err |-> NilErr]
    ELSE
    LET um == UnmarshalInventory(host.Inventory)
        inventory == um.inventory
        dc == lvm_getValidDiskCount(inventory.Disks, host.InstallationDiskID)
        rq == lvm_GetHostRequirements(op, cluster, host)
        cpu == rq.requirements.CPUCores
        memory == rq.requirements.RAMMib
        memoryBytes == MibToBytes(memory)
    IN IF um.err # NilErr
       THEN [res |-> ValidationResult(Failure, lvm_GetHostValidationID,
                       <<Text("Failed to get inventory from host")>>),
             err |-> um.err]
       ELSE IF dc.err # NilErr
       THEN [res |-> ValidationResult(Failure, lvm_GetHostValidationID, <<dc.err>>),
             err |-> NilErr]
       ELSE IF dc.count = 0
       THEN [res |-> ValidationResult(Failure, lvm_GetHostValidationID,
                       <<Text("Insufficient disks, ODF LVM requires at least one non-installation disk on the host")>>),
             err |-> NilErr]
       ELSE IF rq.err # NilErr
       THEN [res |-> ValidationResult(Failure, lvm_GetHostValidationID,
                       <<Text("Failed to get the host requirements for host with id %s"), rq.err>>),
             err |-> rq.err]
       ELSE IF inventory.CPU < cpu
       THEN [res |-> ValidationResult(Failure, lvm_GetHostValidationID,
                       <<Msg("Insufficient CPU to deploy ODF LVM. The required CPU count is %d but found %d",
                             <<cpu, inventory.CPU>>, <<>>)>>),
             err |-> NilErr]
       ELSE IF inventory.UsableBytes < memoryBytes
       THEN [res |-> ValidationResult(Failure, lvm_GetHostValidationID,
                       <<Msg("Insufficient memory to deploy ODF LVM. The required memory is %d MiB but found %d MiB",
                             <<memory, BytesToMib(inventory.UsableBytes)>>, <<>>)>>),
             err |-> NilErr]
       ELSE [res |-> ValidationResult(Success, lvm_GetHostValidationID, <<>>),
             err |-> NilErr]

----------------------------------------------------------------------------
(* The odflvm sibling: internal/operators/odf-lvm *)

odflvm_GetName == "odflvm"

odflvm_GetDependencies == <<>>

odflvm_GetClusterValidationID == "lso-requirements-satisfied"

odflvm_GetHostValidationID == "lso-requirements-satisfied"

\* variant: the installation disk is counted too
RECURSIVE odflvm_getValidDiskCount_AnyID(_, _)
odflvm_getValidDiskCount_AnyID(disks, installationDiskID) ==
    IF disks = <<>> THEN 0
    ELSE LET disk == Head(disks)
             rest == odflvm_getValidDiskCount_AnyID(Tail(disks), installationDiskID)
         IN IF /\ (disk.DriveType = SsdDrive \/ disk.DriveType = HddDrive)
               /\ disk.SizeBytes # 0
            THEN rest + 1
            ELSE rest

\* variant: disks of size zero are counted too
RECURSIVE odflvm_getValidDiskCount_AnySize(_, _)
odflvm_getValidDiskCount_AnySize(disks, installationDiskID) ==
    IF disks = <<>> THEN 0
    ELSE LET disk == Head(disks)
             rest == odflvm_getValidDiskCount_AnySize(Tail(disks), installationDiskID)
         IN IF /\ (disk.DriveType = SsdDrive \/ disk.DriveType = HddDrive)
               /\ installationDiskID # disk.ID
            THEN rest + 1
            ELSE rest

\* count all disks of drive type ssd or hdd
RECURSIVE odflvm_getValidDiskCount(_, _)
odflvm_getValidDiskCount(disks, installationDiskID) ==
    IF disks = <<>> THEN 0
    ELSE LET disk == Head(disks)
             rest == odflvm_getValidDiskCount(Tail(disks), installationDiskID)
         IN IF /\ (disk.DriveType = SsdDrive \/ disk.DriveType = HddDrive)
               /\ installationDiskID # disk.ID
               /\ disk.SizeBytes # 0
            THEN rest + 1
            ELSE rest

\* variant: the CPU and memory settings exchanged
odflvm_GetHostRequirements_Swapped(op, cluster, host) ==
    [requirements |-> [CPUCores |-> op.config.MemoryPerHostMiB,
                       RAMMib |-> op.config.CPUPerHost],
     err |-> NilErr]

odflvm_GetHostRequirements(op, cluster, host) ==
    [requirements |-> [CPUCores |-> op.config.CPUPerHost,
                       RAMMib |-> op.config.MemoryPerHostMiB],
     err |-> NilErr]

\* variant: one more core is required of the hosts of a multi-node cluster
odflvm_GetPreflightRequirements_ByTopology(op, cluster) ==
    [requirements |->
        [OperatorName |-> odflvm_GetName,
         Dependencies |-> odflvm_GetDependencies,
         Master |-> [CPUCores |-> IF IsSingleNodeCluster(cluster)
                                  THEN op.config.CPUPerHost
                                  ELSE op.config.CPUPerHost + 1,
                     RAMMib |-> op.config.MemoryPerHostMiB]],
     err |-> NilErr]

odflvm_GetPreflightRequirements(op, cluster) ==
    [requirements |->
        [OperatorName |-> odflvm_GetName,
         Dependencies |-> odflvm_GetDependencies,
         Master |-> [CPUCores |-> op.config.CPUPerHost,
                     RAMMib |-> op.config.MemoryPerHostMiB]],
     err |-> NilErr]

\* variant: the topology failure is also signalled as an error
odflvm_ValidateCluster_Err(op, cluster) ==
    IF IsSingleNodeCluster(cluster)
    THEN [res |-> ValidationResult(Success, odflvm_GetClusterValidationID, <<>>),
          err |-> NilErr]
    ELSE [res |-> ValidationResult(Failure, odflvm_GetClusterValidationID, <<>>),
          err |-> Text("unsupported topology")]

odflvm_ValidateCluster(op, cluster) ==
    IF IsSingleNodeCluster(cluster)
    THEN [res |-> ValidationResult(Success, odflvm_GetClusterValidationID, <<>>),
          err |-> NilErr]
    ELSE [res |-> ValidationResult(Failure, odflvm_GetClusterValidationID, <<>>),
          err |-> NilErr]

\* variant: an inventory that does not parse is reported as pending
odflvm_ValidateHost_PendingOnParseError(op, cluster, host) ==
    IF host.Inventory.json = "empty"
    THEN [res |-> ValidationResult(Pending, odflvm_GetHostValidationID,
                    <<Text("Missing Inventory in the host")>>),
          err |-> NilErr]
    ELSE
    LET um == UnmarshalInventory(host.Inventory)
        inventory == um.inventory
        diskCount == odflvm_getValidDiskCount(inventory.Disks, host.InstallationDiskID)
        rq == odflvm_GetHostRequirements(op, cluster, host)
        cpu == rq.requirements.CPUCores
        mem == rq.requirements.RAMMib
        memBytes == MibToBytes(mem)
    IN IF um.err # NilErr
       THEN [res |-> ValidationResult(Pending, odflvm_GetHostValidationID,
                       <<Text("Failed to get inventory from host")>>),
             err |-> um.err]
       ELSE IF diskCount = 0
       THEN [res |-> ValidationResult(Failure, odflvm_GetHostValidationID,
                       <<Text("Insufficient disks, ODF LVM requires at least one non-bootable disk on the host")>>),
             err |-> NilErr]
       ELSE IF rq.err # NilErr
       THEN [res |-> ValidationResult(Failure, odflvm_GetHostValidationID,
                       <<Text("Failed to get host requirements for host with id %s"), rq.err>>),
             err |-> rq.err]
       ELSE IF inventory.CPU < cpu
       THEN [res |-> ValidationResult(Failure, odflvm_GetHostValidationID,
                       <<Msg("Insufficient CPU to deploy ODF LVM. Required CPU count is %d but found %d ",
                             <<cpu, inventory.CPU>>, <<>>)>>),
             err |-> NilErr]
       ELSE IF inventory.UsableBytes < memBytes
       THEN [res |-> ValidationResult(Failure, odflvm_GetHostValidationID,
                       <<Msg("Insufficient memory to deploy ODF LVM. Required memory is %d MiB but found %d MiB",
                             <<mem, BytesToMib(inventory.UsableBytes)>>, <<>>)>>),
             err |-> NilErr]
       ELSE [res |-> ValidationResult(Success, odflvm_GetHostValidationID, <<>>),
             err |-> NilErr]

odflvm_ValidateHost(op, cluster, host) ==
    IF host.Inventory.json = "empty"
    THEN [res |-> ValidationResult(Pending, odflvm_GetHostValidationID,
                    <<Text("Missing Inventory in the host")>>),
          err |-> NilErr]
    ELSE
    LET um == UnmarshalInventory(host.Inventory)
        inventory == um.inventory
        diskCount == odflvm_getValidDiskCount(inventory.Disks, host.InstallationDiskID)
        rq == odflvm_GetHostRequirements(op, cluster, host)
        cpu == rq.requirements.CPUCores
        mem == rq.requirements.RAMMib
        memBytes == MibToBytes(mem)
    IN IF um.err # NilErr
       THEN [res |-> ValidationResult(Failure, odflvm_GetHostValidationID,
                       <<Text("Failed to get inventory from host")>>),
             err |-> um.err]
       ELSE IF diskCount = 0
       THEN [res |-> ValidationResult(Failure, odflvm_GetHostValidationID,
                       <<Text("Insufficient disks, ODF LVM requires at least one non-bootable disk on the host")>>),
             err |-> NilErr]
       ELSE IF rq.err # NilErr
       THEN [res |-> ValidationResult(Failure, odflvm_GetHostValidationID,
                       <<Text("Failed to get host requirements for host with id %s"), rq.err>>),
             err |-> rq.err]
       ELSE IF inventory.CPU < cpu
       THEN [res |-> ValidationResult(Failure, odflvm_GetHostValidationID,
                       <<Msg("Insufficient CPU to deploy ODF LVM. Required CPU count is %d but found %d ",
                             <<cpu, inventory.CPU>>, <<>>)>>),
             err |-> NilErr]
       ELSE IF inventory.UsableBytes < memBytes
       THEN [res |-> ValidationResult(Failure, odflvm_GetHostValidationID,
                       <<Msg("Insufficient memory to deploy ODF LVM. Required memory is %d MiB but found %d MiB",
                             <<mem, BytesToMib(inventory.UsableBytes)>>, <<>>)>>),
             err |-> NilErr]
       ELSE [res |-> ValidationResult(Success, odflvm_GetHostValidationID, <<>>),
             err |-> NilErr]

----------------------------------------------------------------------------
(* The state machine: an operator is constructed with its configuration    *)
(* and handed a cluster and a host; every step is one validation call on   *)
(* them, whose verdict and error are recorded.                             *)

\* newLvmOperatorWithConfig / NewODFLVMOperator
Operators == [pkg : {"lvm", "odflvm"}, config : Configs]

\* a host with sufficient resources, as in the operator's test suite
hostWithSufficientResources ==
    [Inventory |->
        [json |-> "ok", CPU |-> MaxCores, UsableBytes |-> 1200 * MiB,
         Disks |-> << [DriveType |-> SsdDrive, SizeBytes |-> 1,
                       ID |-> "/dev/disk/by-id/test-disk-2"] >>],
     InstallationDiskID |-> "/dev/disk/by-id/test-disk-1"]

NoResult == ValidationResult("", "", <<>>)

\* nothing recorded yet by the other specifications
NoRequirements ==
    [host |-> [set |-> FALSE, requirements |-> [CPUCores |-> 0, RAMMib |-> 0],
               err |-> NilErr],
     preflight |-> [set |-> FALSE, master |-> [CPUCores |-> 0, RAMMib |-> 0],
                    err |-> NilErr]]

IdleCalc == counted = -1 /\ requirements = NoRequirements

Init ==
    /\ o \in Operators
    /\ \/ curCluster \in Clusters /\ curHost = hostWithSufficientResources
       \/ curCluster \in HostClusters /\ curHost \in Hosts
    /\ call = "none"
    /\ res = NoResult
    /\ err = NilErr
    /\ IdleCalc

\* one call of the lvm operator's ValidateCluster on the current cluster
LvmValidateClusterStep ==
    /\ o.pkg = "lvm"
    /\ LET r == lvm_ValidateCluster(o, curCluster) IN
       /\ call' = "ValidateCluster"
       /\ res' = r.res
       /\ err' = r.err
    /\ UNCHANGED <<o, curCluster, curHost>>

\* one call of the lvm operator's ValidateHost on the current host
LvmValidateHostStep ==
    /\ o.pkg = "lvm"
    /\ LET r == lvm_ValidateHost(o, curCluster, curHost) IN
       /\ call' = "ValidateHost"
       /\ res' = r.res
       /\ err' = r.err
    /\ UNCHANGED <<o, curCluster, curHost>>

OdflvmValidateClusterStep ==
    /\ o.pkg = "odflvm"
    /\ LET r == odflvm_ValidateCluster(o, curCluster) IN
       /\ call' = "ValidateCluster"
       /\ res' = r.res
       /\ err' = r.err
    /\ UNCHANGED <<o, curCluster, curHost>>

OdflvmValidateHostStep ==
    /\ o.pkg = "odflvm"
    /\ LET r == odflvm_ValidateHost(o, curCluster, curHost) IN
       /\ call' = "ValidateHost"
       /\ res' = r.res
       /\ err' = r.err
    /\ UNCHANGED <<o, curCluster, curHost>>

LvmValidateCluster ==
    LvmValidateClusterStep /\ UNCHANGED calcVars

LvmValidateHost ==
    LvmValidateHostStep /\ UNCHANGED calcVars

OdflvmValidateCluster ==
    OdflvmValidateClusterStep /\ UNCHANGED calcVars

OdflvmValidateHost ==
    OdflvmValidateHostStep /\ UNCHANGED calcVars

Next ==
    \/ LvmValidateCluster
    \/ LvmValidateHost
    \/ OdflvmValidateCluster
    \/ OdflvmValidateHost

Spec == Init /\ [][Next]_vars

----------------------------------------------------------------------------
(* Properties.  The conditions below are stated on the call's inputs       *)
(* (o, curCluster, curHost), not through the validators' own helpers.      *)

calledHost == call = "ValidateHost"
calledCluster == call = "ValidateCluster"

inv == curHost.Inventory

\* a disk of the current host that is HDD/SSD, of non-zero size and not the
\* installation disk
HasEligibleDisk ==
    \E i \in 1..Len(inv.Disks) :
        /\ inv.Disks[i].DriveType \in {HddDrive, SsdDrive}
        /\ inv.Disks[i].SizeBytes # 0
        /\ inv.Disks[i].ID # curHost.InstallationDiskID

requiredCores == o.config.CPUPerHost
requiredMiB == o.config.MemoryPerHostMiB

InsufficientDisksReason ==
    IF o.pkg = "lvm"
    THEN Text("Insufficient disks, ODF LVM requires at least one non-installation disk on the host")
    ELSE Text("Insufficient disks, ODF LVM requires at least one non-bootable disk on the host")

InsufficientCPUFormat ==
    IF o.pkg = "lvm"
    THEN "Insufficient CPU to deploy ODF LVM. The required CPU count is %d but found %d"
    ELSE "Insufficient CPU to deploy ODF LVM. Required CPU count is %d but found %d "

InsufficientMemoryFormat ==
    IF o.pkg = "lvm"
    THEN "Insufficient memory to deploy ODF LVM. The required memory is %d MiB but found %d MiB"
    ELSE "Insufficient memory to deploy ODF LVM. Required memory is %d MiB but found %d MiB"

\* m is bytes expressed in whole MiB, rounded toward zero
IsWholeMiB(m, bytes) ==
    IF bytes >= 0
    THEN m >= 0 /\ m * MiB <= bytes /\ bytes < (m + 1) * MiB
    ELSE m <= 0 /\ (-m) * MiB <= -bytes /\ -bytes < (1 - m) * MiB

\* C1: ValidateHost returns Pending exactly when the host's inventory is
\* absent: an absent inventory gives Pending, a present one (parseable or
\* not) never does.
C1_PendingIffNoInventory ==
    calledHost => (res.Status = Pending <=> inv.json = "empty")

C1_Witness ==
    /\ calledHost
    /\ inv.json = "empty"
    /\ res.Status = Pending
    /\ requiredCores > 0

\* C2: a host with parseable inventory and no eligible disk gets Failure with
\* the insufficient-disks reason alone, whatever its CPU and memory.
C2_NoEligibleDiskFails ==
    (calledHost /\ inv.json = "ok" /\ ~HasEligibleDisk)
        => /\ res.Status = Failure
           /\ res.Reasons = <<InsufficientDisksReason>>

C2_Witness ==
    /\ calledHost
    /\ inv.json = "ok"
    /\ Len(inv.Disks) > 0
    /\ ~HasEligibleDisk
    /\ inv.CPU < requiredCores
    /\ res.Status = Failure
    /\ res.Reasons = <<InsufficientDisksReason>>

\* C3: with an eligible disk and fewer cores than required the verdict is
\* Failure with exactly one reason, which carries the required and the
\* observed core count, whether or not the memory is short too.
C3_InsufficientCPUFails ==
    (calledHost /\ inv.json = "ok" /\ HasEligibleDisk /\ inv.CPU < requiredCores)
        => /\ res.Status = Failure
           /\ Len(res.Reasons) = 1
           /\ res.Reasons[1].fmt = InsufficientCPUFormat
           /\ res.Reasons[1].args = <<requiredCores, inv.CPU>>

C3_Witness ==
    /\ calledHost
    /\ inv.json = "ok"
    /\ HasEligibleDisk
    /\ inv.CPU < requiredCores
    /\ inv.UsableBytes < requiredMiB * MiB
    /\ res.Status = Failure
    /\ res.Reasons[1].args = <<requiredCores, inv.CPU>>

\* C4: with an eligible disk, enough cores and less usable memory than the
\* required MiB in bytes the verdict is Failure with the single reason that
\* reports the required MiB and the usable memory in whole MiB; 1199 MiB
\* against 1200 MiB reports 1200 and 1199.
C4_InsufficientMemoryFails ==
    (/\ calledHost /\ inv.json = "ok" /\ HasEligibleDisk
     /\ inv.CPU >= requiredCores
     /\ inv.UsableBytes < requiredMiB * MiB)
        => /\ res.Status = Failure
           /\ Len(res.Reasons) = 1
           /\ res.Reasons[1].fmt = InsufficientMemoryFormat
           /\ Len(res.Reasons[1].args) = 2
           /\ res.Reasons[1].args[1] = requiredMiB
           /\ IsWholeMiB(res.Reasons[1].args[2], inv.UsableBytes)
           /\ (requiredMiB = 1200 /\ inv.UsableBytes = 1199 * MiB
                 => res.Reasons[1].args = <<1200, 1199>>)

C4_Witness ==
    /\ calledHost
    /\ inv.json = "ok"
    /\ HasEligibleDisk
    /\ inv.CPU >= requiredCores
    /\ requiredMiB = 1200
    /\ inv.UsableBytes = 1199 * MiB
    /\ res.Status = Failure
    /\ res.Reasons[1].args = <<1200, 1199>>

\* C5: a host with an eligible disk, at least the required cores and at
\* least the required memory gets Success with no reason and no error;
\* being exactly at the requirement is enough.
C5_SufficientHostSucceeds ==
    (/\ calledHost /\ inv.json = "ok" /\ HasEligibleDisk
     /\ inv.CPU >= requiredCores
     /\ inv.UsableBytes >= requiredMiB * MiB)
        => /\ res.Status = Success
           /\ res.Reasons = <<>>
           /\ err = NilErr

C5_Witness ==
    /\ calledHost
    /\ inv.json = "ok"
    /\ HasEligibleDisk
    /\ requiredCores > 0
    /\ inv.CPU = requiredCores
    /\ requiredMiB = 1200
    /\ inv.UsableBytes = 1200 * MiB
    /\ res.Status = Success
    /\ err = NilErr

isSingleNode == curCluster.HighAvailabilityMode = "None"

\* the platform versions of the input domain that are semantic versions
\* not below 4.12.0
VersionsAtLeastMinimum ==
    { <<"4", ".", "1", "2", ".", "0">>,
      <<"4", ".", "1", "2">>,
      <<"4", ".", "1", "3", ".", "1">>,
      <<"5">>,
      <<"v", "4", ".", "1", "2", ".", "0">>,
      <<"4", ".", "1", "3", ".", "0", "-", "r", "c", "1">>,
      <<"4", ".", "1", "2", ".", "0", ".", "1">> }

\* the platform versions of the input domain that are no semantic versions
UnparsableVersions ==
    { <<>>, <<"a", "b", "c">>, <<"4", ".", ".", "1">>, <<"4", ".", "x">> }

TopologyReason ==
    Text("ODF LVM operator is only supported for Single Node Openshift deployment")

VersionReason ==
    Text("ODF LVM operator is only supported for openshift versions 4.12.0 and above")

\* C6 as stated: for both operators ValidateCluster returns Success exactly
\* when the topology is single-node and the platform version parses and is
\* at least the minimum version.
C6_SuccessIffSingleNodeAndVersion_AsStated ==
    calledCluster =>
        (res.Status = Success
            <=> (isSingleNode /\ curCluster.OpenshiftVersion \in VersionsAtLeastMinimum))

\* C6 amended: the lvm operator's ValidateCluster returns Success exactly when
\* the topology is single-node and the platform version parses and is at least
\* 4.12.0, and a single-node 4.10.0 cluster fails with the version reason; the
\* odflvm sibling's ValidateCluster returns Success exactly when the topology
\* is single-node, whatever the version.
C6_SuccessIffSingleNodeAndVersion ==
    calledCluster =>
        /\ o.pkg = "lvm" =>
              /\ res.Status = Success
                    <=> (isSingleNode /\ curCluster.OpenshiftVersion \in VersionsAtLeastMinimum)
              /\ (isSingleNode /\ curCluster.OpenshiftVersion = <<"4", ".", "1", "0", ".", "0">>)
                    => (res.Status = Failure /\ res.Reasons = <<VersionReason>>)
        /\ o.pkg = "odflvm" => (res.Status = Success <=> isSingleNode)

C6_Witness ==
    /\ calledCluster
    /\ o.pkg = "lvm"
    /\ isSingleNode
    /\ curCluster.OpenshiftVersion = <<"4", ".", "1", "0", ".", "0">>
    /\ res.Status = Failure
    /\ res.Reasons = <<VersionReason>>

\* C7: for a cluster that is not single-node ValidateCluster returns Failure
\* with exactly one reason, the topology reason, whatever the hosts and the
\* platform version.
C7_NotSingleNodeOneReason ==
    (calledCluster /\ ~isSingleNode)
        => /\ res.Status = Failure
           /\ Len(res.Reasons) = 1
           /\ (o.pkg = "lvm" => res.Reasons[1] = TopologyReason)

\* C8: in every verdict of ValidateCluster and ValidateHost the reasons are
\* empty exactly when the status is Success.
C8_ReasonsEmptyIffSuccess ==
    call # "none" => (res.Reasons = <<>> <=> res.Status = Success)

\* C9: malformed input gives Failure and an error to the caller: ValidateHost
\* on an inventory that does not parse, and the lvm operator's ValidateCluster
\* on a single-node cluster whose platform version does not parse, where the
\* reason is the parse error text.
C9_MalformedInputSignalsError ==
    /\ (calledHost /\ inv.json = "malformed")
          => (res.Status = Failure /\ err # NilErr)
    /\ (/\ calledCluster /\ o.pkg = "lvm" /\ isSingleNode
        /\ curCluster.OpenshiftVersion \in UnparsableVersions)
          => /\ res.Status = Failure
             /\ res.Reasons = <<Msg("Malformed version: %s", <<>>, curCluster.OpenshiftVersion)>>
             /\ err # NilErr

\* C10: unmet requirements, a missing inventory and Success never come with
\* an error: topology mismatch, version below the minimum, Pending, too few
\* disks, cores or memory all return a nil error.
C10_UnmetRequirementNoError ==
    /\ (calledCluster /\ ~isSingleNode) => err = NilErr
    /\ (/\ calledCluster /\ isSingleNode /\ res.Status = Failure
        /\ curCluster.OpenshiftVersion \notin UnparsableVersions) => err = NilErr
    /\ (calledHost /\ inv.json # "malformed") => err = NilErr
    /\ (call # "none" /\ res.Status = Success) => err = NilErr

C10_Witness ==
    /\ calledCluster
    /\ ~isSingleNode
    /\ curCluster.OpenshiftVersion \in UnparsableVersions
    /\ res.Status = Failure
    /\ err = NilErr

----------------------------------------------------------------------------
(* The disk count on its own: the odflvm operator counts the valid disks   *)
(* of a disk list.                                                         *)

\* NewODFLVMOperator: an operator with the zero configuration
NewODFLVMOperator ==
    [pkg |-> "odflvm", config |-> [CPUPerHost |-> 0, MemoryPerHostMiB |-> 0]]

InitDisks ==
    /\ o = NewODFLVMOperator
    /\ curCluster \in HostClusters
    /\ curHost \in [Inventory : [json : {"ok"}, CPU : {0}, UsableBytes : {-1},
                                 Disks : DiskLists],
                    InstallationDiskID : DiskIDs \cup {""}]
    /\ call = "none"
    /\ res = NoResult
    /\ err = NilErr
    /\ IdleCalc

GetValidDiskCount ==
    /\ counted = -1
    /\ counted' = odflvm_getValidDiskCount(curHost.Inventory.Disks,
                                           curHost.InstallationDiskID)
    /\ UNCHANGED <<o, curCluster, curHost, call, res, err, requirements>>

NextDisks == GetValidDiskCount

SpecDisks == InitDisks /\ [][NextDisks]_vars

\* disk i of the current host is HDD or SSD, of non-zero size and not the
\* installation disk
Contributes(i) ==
    /\ inv.Disks[i].DriveType \in {HddDrive, SsdDrive}
    /\ inv.Disks[i].SizeBytes # 0
    /\ inv.Disks[i].ID # curHost.InstallationDiskID

\* the disk list in the order given by the permutation p of its indices
Reordered(p) == [i \in 1..Len(inv.Disks) |-> inv.Disks[p[i]]]

\* the disk list without its disk i
Without(i) == SubSeq(inv.Disks, 1, i - 1) \o SubSeq(inv.Disks, i + 1, Len(inv.Disks))

\* C13: getValidDiskCount returns the number of disks that are HDD or SSD, of
\* non-zero size and not the installation disk; the count is between 0 and
\* the length of the list, is the same for every order of the list, and is
\* unchanged by taking away a disk that is the installation disk, has size
\* zero or is of another type.
C13_CountsEligibleDisks ==
    counted # -1 =>
        /\ counted = Cardinality({i \in 1..Len(inv.Disks) : Contributes(i)})
        /\ counted >= 0
        /\ counted <= Len(inv.Disks)
        /\ \A p \in Permutations(1..Len(inv.Disks)) :
              odflvm_getValidDiskCount(Reordered(p), curHost.InstallationDiskID) = counted
        /\ \A i \in 1..Len(inv.Disks) :
              ~Contributes(i) =>
                 odflvm_getValidDiskCount(Without(i), curHost.InstallationDiskID) = counted

\* two disks counted as one: the installation disk, an HDD of non-zero size,
\* comes first and is left out
C13_Witness ==
    /\ counted = 1
    /\ Len(inv.Disks) = 2
    /\ inv.Disks[1].ID = curHost.InstallationDiskID
    /\ inv.Disks[1].DriveType = HddDrive
    /\ inv.Disks[1].SizeBytes # 0
    /\ Contributes(2)

----------------------------------------------------------------------------
(* The requirement computation: GetHostRequirements and                    *)
(* GetPreflightRequirements are called on the current cluster and host,    *)
(* next to ValidateHost, and the caller keeps what they returned.          *)

\* hosts with one valid disk, so that ValidateHost asks for the requirements
ReqHosts ==
    {[hostWithSufficientResources EXCEPT !.Inventory.CPU = c,
                                         !.Inventory.UsableBytes = b] :
        c \in 0..MaxCores, b \in {0, 1200 * MiB}}

InitReq ==
    /\ o \in Operators
    /\ curCluster \in Clusters
    /\ curHost \in ReqHosts
    /\ call = "none"
    /\ res = NoResult
    /\ err = NilErr
    /\ IdleCalc

\* what the caller keeps of GetHostRequirements
KeepHostRequirements(r) ==
    /\ requirements' = [requirements EXCEPT
                           !.host = [set |-> TRUE,
                                     requirements |-> r.requirements,
                                     err |-> r.err]]
    /\ UNCHANGED <<o, curCluster, curHost, call, res, err, counted>>

\* what the caller keeps of GetPreflightRequirements
KeepPreflightRequirements(r) ==
    /\ requirements' = [requirements EXCEPT
                           !.preflight = [set |-> TRUE,
                                          master |-> r.requirements.Master,
                                          err |-> r.err]]
    /\ UNCHANGED <<o, curCluster, curHost, call, res, err, counted>>

LvmGetHostRequirements ==
    /\ o.pkg = "lvm"
    /\ ~requirements.host.set
    /\ KeepHostRequirements(lvm_GetHostRequirements(o, curCluster, curHost))

LvmGetPreflightRequirements ==
    /\ o.pkg = "lvm"
    /\ ~requirements.preflight.set
    /\ KeepPreflightRequirements(lvm_GetPreflightRequirements(o, curCluster))

OdflvmGetHostRequirements ==
    /\ o.pkg = "odflvm"
    /\ ~requirements.host.set
    /\ KeepHostRequirements(odflvm_GetHostRequirements(o, curCluster, curHost))

OdflvmGetPreflightRequirements ==
    /\ o.pkg = "odflvm"
    /\ ~requirements.preflight.set
    /\ KeepPreflightRequirements(odflvm_GetPreflightRequirements(o, curCluster))

ReqLvmValidateHost ==
    LvmValidateHostStep /\ UNCHANGED calcVars

ReqOdflvmValidateHost ==
    OdflvmValidateHostStep /\ UNCHANGED calcVars

NextReq ==
    \/ LvmGetHostRequirements
    \/ LvmGetPreflightRequirements
    \/ OdflvmGetHostRequirements
    \/ OdflvmGetPreflightRequirements
    \/ ReqLvmValidateHost
    \/ ReqOdflvmValidateHost

SpecReq == InitReq /\ [][NextReq]_vars

\* the requirements the configuration states
Configured == [CPUCores |-> o.config.CPUPerHost, RAMMib |-> o.config.MemoryPerHostMiB]

HostRequirementsFormat ==
    IF o.pkg = "lvm"
    THEN "Failed to get the host requirements for host with id %s"
    ELSE "Failed to get host requirements for host with id %s"

\* C14: whatever the cluster (topology, number of hosts, version) and the
\* host, GetHostRequirements returns, without error, exactly the configured
\* CPU cores and RAM MiB, and so does the master quantitative part of
\* GetPreflightRequirements; no verdict of ValidateHost carries the "failed
\* to get the host requirements" reason or an error of that branch.
C14_RequirementsAreConfiguration ==
    /\ requirements.host.set =>
          /\ requirements.host.err = NilErr
          /\ requirements.host.requirements = Configured
    /\ requirements.preflight.set =>
          /\ requirements.preflight.err = NilErr
          /\ requirements.preflight.master = Configured
    /\ requirements.host.set /\ requirements.preflight.set =>
          requirements.host.requirements = requirements.preflight.master
    /\ calledHost =>
          /\ \A i \in 1..Len(res.Reasons) : res.Reasons[i].fmt # HostRequirementsFormat
          /\ err = NilErr

\* both requirement calls answered with a non-zero requirement in a
\* multi-node cluster, and ValidateHost went past the requirements to the
\* CPU comparison
C14_Witness ==
    /\ requirements.host.set
    /\ requirements.preflight.set
    /\ requirements.host.requirements = requirements.preflight.master
    /\ requirements.host.requirements.CPUCores = MaxCores
    /\ requirements.host.requirements.RAMMib = 1200
    /\ ~IsSingleNodeCluster(curCluster)
    /\ curCluster.Hosts = 2
    /\ calledHost
    /\ res.Status = Failure
    /\ res.Reasons[1].fmt = InsufficientCPUFormat

----------------------------------------------------------------------------
(* Validation ids of the verdicts, under Spec *)

GetClusterValidationIDOf(op) ==
    IF op.pkg = "lvm" THEN lvm_GetClusterValidationID
    ELSE odflvm_GetClusterValidationID

GetHostValidationIDOf(op) ==
    IF op.pkg = "lvm" THEN lvm_GetHostValidationID
    ELSE odflvm_GetHostValidationID

\* C15: every verdict of ValidateCluster carries the value of the operator's
\* GetClusterValidationID, also when the platform version does not parse,
\* and every verdict of ValidateHost carries the value of the operator's
\* GetHostValidationID.
C15_VerdictCarriesOwnValidationId ==
    /\ calledCluster => res.ValidationId = GetClusterValidationIDOf(o)
    /\ calledHost => res.ValidationId = GetHostValidationIDOf(o)

\* the lvm operator fails a single-node cluster whose version does not parse
C15_Witness ==
    /\ calledCluster
    /\ o.pkg = "lvm"
    /\ isSingleNode
    /\ curCluster.OpenshiftVersion \in UnparsableVersions
    /\ res.Status = Failure
    /\ res.ValidationId = lvm_GetClusterValidationID

====
